---- MODULE Spec2Model ----
(***************************************************************************)
(* Model of bbl-to-bibtex-converter.py.                                    *)
(*                                                                         *)
(* Text is a sequence of tokens.  A token stands for a fixed piece of      *)
(* text:                                                                   *)
(*   "BIB" \bibitem    "NB" \newblock   "EM" \emph    "UCMD" \url          *)
(*   "SP" a blank      "NL" a line break                                   *)
(*   "[" "]" "{" "}" "," "."  the character itself                         *)
(*   "In" "URL" "and" "AND"   the word itself                              *)
(*   "Y1" "Y2"  two different runs of exactly four digits (1999, 2020)     *)
(*   "d"        one digit                                                  *)
(*   any other token ("A", "B", "K", "T", "J", ...) is one letter.         *)
(* The regular expressions of the source are written out as matchers over  *)
(* such sequences, following the leftmost-first backtracking order of      *)
(* Python's re module.                                                     *)
(***************************************************************************)
EXTENDS Integers, Sequences, FiniteSets, TLC

VARIABLES
    input_file,       \* the file at bbl_file_path: [status, content]
    output_path,      \* what opening and writing bibtex_file_path meets
    output_file,      \* the file at bibtex_file_path: [written, content]
    bbl_content,      \* main: the text read from the input file
    bibitems,         \* process_all_bibitems: the chunks of re.split
    idx,              \* process_all_bibitems: number of chunks visited
    raised,           \* the visited chunks whose conversion raised an exception
    bibtex_entries,   \* process_all_bibitems: the output accumulator
    bibtex_content,   \* process_all_bibitems: the joined output text
    message,          \* what main printed: [text, arg]
    exit_code,        \* what main returned (-1: not returned yet)
    pc,               \* position in the running function
    bibitem,          \* convert_bibitem_to_bibtex: its argument
    entry_parts,      \* the pieces the argument was put together from
    result,           \* convert_bibitem_to_bibtex: its return value
    authors           \* author normalisation: the raw span and the successive outputs

vars == <<input_file, output_path, output_file, bbl_content, bibitems, idx,
          raised, bibtex_entries, bibtex_content, message, exit_code, pc,
          bibitem, entry_parts, result, authors>>

-----------------------------------------------------------------------------
(* Character classes and string helpers                                    *)

\* \s
Whitespace == {"SP", "NL"}

\* tokens that are not word characters (\W); every other token ends in [A-Za-z0-9]
NonWord == {"SP", "NL", ",", ".", "[", "]", "{", "}"}

\* \d{4} as one token
FourDigits == {"Y1", "Y2"}

Min(S) == CHOOSE x \in S : \A y \in S : x <= y

\* first index >= from whose token is in S, 0 when there is none
FirstIn(s, from, S) ==
    LET I == {i \in from..Len(s) : s[i] \in S}
    IN  IF I = {} THEN 0 ELSE Min(I)

\* first index >= from whose token is not in S, Len(s)+1 when there is none
FirstNotIn(s, from, S) ==
    LET I == {i \in from..Len(s) : s[i] \notin S}
    IN  IF I = {} THEN Len(s) + 1 ELSE Min(I)

\* last index whose token is not in S, 0 when there is none
LastNotIn(s, S) ==
    LET I == {i \in 1..Len(s) : s[i] \notin S}
    IN  IF I = {} THEN 0 ELSE CHOOSE x \in I : \A y \in I : y <= x

\* str.strip()
Strip(s) == SubSeq(s, FirstNotIn(s, 1, Whitespace), LastNotIn(s, Whitespace))

\* str.rstrip('.')
RStripDot(s) == SubSeq(s, 1, LastNotIn(s, {"."}))

\* re.sub(r'\s+', ' ', s)
RECURSIVE CollapseWS(_)
CollapseWS(s) ==
    IF s = <<>> THEN <<>>
    ELSE IF s[1] \in Whitespace
         THEN <<"SP">> \o CollapseWS(SubSeq(s, FirstNotIn(s, 1, Whitespace), Len(s)))
         ELSE <<s[1]>> \o CollapseWS(Tail(s))

\* str.split(sep): the pieces between the separators, empty ones included
RECURSIVE SplitOn(_, _)
SplitOn(s, sep) ==
    LET c == FirstIn(s, 1, {sep})
    IN  IF c = 0 THEN <<s>>
        ELSE <<SubSeq(s, 1, c - 1)>> \o SplitOn(SubSeq(s, c + 1, Len(s)), sep)

\* sep.join(parts)
RECURSIVE JoinWith(_, _)
JoinWith(parts, sep) ==
    IF parts = <<>> THEN <<>>
    ELSE IF Len(parts) = 1 THEN parts[1]
    ELSE parts[1] \o sep \o JoinWith(Tail(parts), sep)

-----------------------------------------------------------------------------
(* The regular expressions of convert_bibitem_to_bibtex                    *)

\* open ([^close]+) close  at position p: index of the closing token, 0 on no match
GroupEnd(s, p, open, close) ==
    IF p <= Len(s) /\ s[p] = open
    THEN LET q == FirstIn(s, p + 1, {close})
         IN  IF q >= p + 2 THEN q ELSE 0
    ELSE 0

\* \\bibitem(?:\[[^\]]+\])?\{([^}]+)\}  at position i:
\* <<first index of the key, index of the closing brace>>, <<0, 0>> on no match
BibitemAt(s, i) ==
    IF i > Len(s) \/ s[i] # "BIB" THEN <<0, 0>>
    ELSE LET l == GroupEnd(s, i + 1, "[", "]")
             labelled == IF l # 0 THEN GroupEnd(s, l + 1, "{", "}") ELSE 0
             bare == GroupEnd(s, i + 1, "{", "}")
         IN  IF labelled # 0 THEN <<l + 2, labelled>>
             ELSE IF bare # 0 THEN <<i + 2, bare>>
             ELSE <<0, 0>>

\* re.search of the key pattern: group(1), or <<>> when there is no match
\* (a matched group is never empty)
KeyMatch(s) ==
    LET I == {i \in 1..Len(s) : BibitemAt(s, i)[2] # 0}
    IN  IF I = {} THEN <<>>
        ELSE LET m == BibitemAt(s, Min(I)) IN SubSeq(s, m[1], m[2] - 1)

\* the key kept as matched, blanks around it included
ExtractKeyUntrimmed(s) == KeyMatch(s)

\* line 27: key_match.group(1).strip()
ExtractKey(s) == Strip(KeyMatch(s))

\* \s*(.+?)(?=\\newblock) with DOTALL, started right after index q:
\* <<first, last>> index of group(1), <<0, 0>> on no match.
\* \s* first takes the whole blank run; .+? then needs one character and
\* grows to the next \newblock; only if there is none does \s* give back
\* its last blank, which then is the group.
AuthorSpanAfter(s, q) ==
    LET w == FirstNotIn(s, q + 1, Whitespace)
        n == FirstIn(s, w + 1, {"NB"})
    IN  IF w <= Len(s) /\ n # 0 THEN <<w, n - 1>>
        ELSE IF w <= Len(s) /\ s[w] = "NB" /\ w - 1 >= q + 1 THEN <<w - 1, w - 1>>
        ELSE <<0, 0>>

\* re.search of the author pattern: <<matched, group(1)>>
AuthorMatch(s) ==
    LET At(i) == IF BibitemAt(s, i)[2] = 0 THEN <<0, 0>>
                 ELSE AuthorSpanAfter(s, BibitemAt(s, i)[2])
        I == {i \in 1..Len(s) : At(i)[1] # 0}
    IN  IF I = {} THEN <<FALSE, <<>>>>
        ELSE <<TRUE, SubSeq(s, At(Min(I))[1], At(Min(I))[2])>>

\* one candidate of authors.split(','): a.strip().rstrip('.'), and, when the
\* result is not empty, re.sub(r'^\s*and\s+', '', a, flags=re.IGNORECASE);
\* <<kept, cleaned candidate>>
CleanAuthor(a) ==
    LET b == RStripDot(Strip(a))
    IN  IF b = <<>> THEN <<FALSE, <<>>>>
        ELSE IF b[1] \in {"and", "AND"} /\ Len(b) >= 2 /\ b[2] \in Whitespace
             THEN <<TRUE, SubSeq(b, FirstNotIn(b, 2, Whitespace), Len(b))>>
             ELSE <<TRUE, b>>

RECURSIVE AuthorList(_)
AuthorList(cands) ==
    IF cands = <<>> THEN <<>>
    ELSE LET c == CleanAuthor(cands[1])
         IN  (IF c[1] THEN <<c[2]>> ELSE <<>>) \o AuthorList(Tail(cands))

\* lines 33-45: from group(1) of the author match to the joined author string
NormalizeAuthors(span) ==
    LET a1 == Strip(span)
        a2 == CollapseWS(a1)
        a3 == RStripDot(a2)
    IN  JoinWith(AuthorList(SplitOn(a3, ",")), <<"SP", "and", "SP">>)

\* \\newblock\s+(.+?)(?=\\newblock|\\emph|$) with DOTALL at position n:
\* <<first, last>> index of group(1), <<0, 0>> on no match.
\* $ is the end of the text or the place before a final line break.
TitleAt(s, n) ==
    IF n + 1 > Len(s) \/ s[n] # "NB" \/ s[n + 1] \notin Whitespace THEN <<0, 0>>
    ELSE LET w == FirstNotIn(s, n + 1, Whitespace)
             Stop(e) == \/ e = Len(s)
                        \/ s[e + 1] \in {"NB", "EM"}
                        \/ (e + 1 = Len(s) /\ s[e + 1] = "NL")
         IN  IF w <= Len(s) THEN <<w, Min({e \in w..Len(s) : Stop(e)})>>
             ELSE IF Len(s) >= n + 2 THEN <<Len(s), Len(s)>>
             ELSE <<0, 0>>

\* re.search of the title pattern: <<matched, group(1)>>
TitleMatch(s) ==
    LET I == {n \in 1..Len(s) : TitleAt(s, n)[1] # 0}
    IN  IF I = {} THEN <<FALSE, <<>>>>
        ELSE <<TRUE, SubSeq(s, TitleAt(s, Min(I))[1], TitleAt(s, Min(I))[2])>>

\* re.search(r'In\s+\\emph\{', bibitem) is not None
IsConference(s) ==
    \E i \in 1..Len(s) :
        /\ s[i] = "In"
        /\ i + 1 <= Len(s) /\ s[i + 1] \in Whitespace
        /\ LET e == FirstNotIn(s, i + 1, Whitespace)
           IN  e + 1 <= Len(s) /\ s[e] = "EM" /\ s[e + 1] = "{"

\* re.search of  cmd\{([^}]+)\} : <<matched, group(1)>>
BracedMatch(s, I) ==
    IF I = {} THEN <<FALSE, <<>>>>
    ELSE <<TRUE, SubSeq(s, Min(I) + 2, GroupEnd(s, Min(I) + 1, "{", "}") - 1)>>

\* re.search(r'\\emph\{([^}]+)\}', bibitem, re.DOTALL)
JournalMatch(s) ==
    BracedMatch(s, {i \in 1..Len(s) : s[i] = "EM" /\ GroupEnd(s, i + 1, "{", "}") # 0})

\* (\d{4})\.  at position p: the digits, <<>> on no match
YearAt(s, p) ==
    IF p + 1 <= Len(s) /\ s[p] \in FourDigits /\ s[p + 1] = "." THEN <<s[p]>>
    ELSE IF p + 4 <= Len(s) /\ (\A k \in 0..3 : s[p + k] = "d") /\ s[p + 4] = "."
         THEN SubSeq(s, p, p + 3)
    ELSE <<>>

\* re.search(r',\s*(\d{4})\.', bibitem): group(1), <<>> on no match
YearCommaMatch(s) ==
    LET At(i) == IF s[i] = "," THEN YearAt(s, FirstNotIn(s, i + 1, Whitespace)) ELSE <<>>
        I == {i \in 1..Len(s) : At(i) # <<>>}
    IN  IF I = {} THEN <<>> ELSE At(Min(I))

\* re.search(r'\b(\d{4})\.', bibitem): group(1), <<>> on no match
YearBareMatch(s) ==
    LET Boundary(p) == p = 1 \/ s[p - 1] \in NonWord
        I == {p \in 1..Len(s) : Boundary(p) /\ YearAt(s, p) # <<>>}
    IN  IF I = {} THEN <<>> ELSE YearAt(s, Min(I))

\* the two patterns tried in the other order
YearMatchBareFirst(s) ==
    IF YearBareMatch(s) # <<>> THEN YearBareMatch(s) ELSE YearCommaMatch(s)

\* lines 73-76
YearMatch(s) ==
    IF YearCommaMatch(s) # <<>> THEN YearCommaMatch(s) ELSE YearBareMatch(s)

\* re.search(r'URL\s+\\url\{([^}]+)\}', bibitem, re.DOTALL)
UrlMatch(s) ==
    LET Cmd(i) == FirstNotIn(s, i + 1, Whitespace)
    IN  BracedMatch(s, {c \in 1..Len(s) :
            /\ s[c] = "UCMD" /\ GroupEnd(s, c + 1, "{", "}") # 0
            /\ \E i \in 1..Len(s) : s[i] = "URL" /\ i + 1 < c /\ Cmd(i) = c})

-----------------------------------------------------------------------------
(* convert_bibitem_to_bibtex                                               *)

\* the value returned for an entry that is skipped
None == [ok |-> FALSE, type |-> "", key |-> <<>>, author |-> <<>>,
         title |-> <<>>, fields |-> <<>>]

\* lines 56-83: the optional fields in the order they are inserted
Fields(s) ==
    LET j == JournalMatch(s)
        y == YearMatch(s)
        u == UrlMatch(s)
    IN  (IF j[1] THEN <<<<(IF IsConference(s) THEN "booktitle" ELSE "journal"),
                         CollapseWS(Strip(j[2]))>>>> ELSE <<>>)
        \o (IF y # <<>> THEN <<<<"year", y>>>> ELSE <<>>)
        \o (IF u[1] THEN <<<<"url", Strip(u[2])>>>> ELSE <<>>)

\* lines 86-91
EntryType(s) == IF IsConference(s) THEN "inproceedings" ELSE "article"

\* lines 22-102
convert_bibitem_to_bibtex(s) ==
    IF KeyMatch(s) = <<>> THEN None
    ELSE IF ~AuthorMatch(s)[1] THEN None
    ELSE IF ~TitleMatch(s)[1] THEN None
    ELSE [ok |-> TRUE,
          type |-> EntryType(s),
          key |-> ExtractKey(s),
          author |-> NormalizeAuthors(AuthorMatch(s)[2]),
          title |-> CollapseWS(Strip(TitleMatch(s)[2])),
          fields |-> Fields(s)]

\* lines 94-100: the text of the entry
Render(r) ==
    LET Line(name, value) ==
            <<"SP", "SP", name, "SP", "=", "SP", "{">> \o value \o <<"}", ",", "NL">>
        FieldLines == [k \in 1..Len(r.fields) |-> Line(r.fields[k][1], r.fields[k][2])]
        text == <<"@", r.type, "{">> \o r.key \o <<",", "NL">>
                \o Line("author", r.author) \o Line("title", r.title)
                \o JoinWith(FieldLines, <<>>)
    IN  SubSeq(text, 1, LastNotIn(text, {",", "NL"})) \o <<"NL", "}", "NL">>

-----------------------------------------------------------------------------
(* process_all_bibitems                                                    *)

\* a split whose pattern has no lookahead: the marker is cut away with the
\* line break
RECURSIVE ReSplitConsuming(_)
ReSplitConsuming(s) ==
    LET I == {i \in 1..(Len(s) - 1) : s[i] = "NL" /\ s[i + 1] = "BIB"}
    IN  IF I = {} THEN <<s>>
        ELSE <<SubSeq(s, 1, Min(I) - 1)>> \o ReSplitConsuming(SubSeq(s, Min(I) + 2, Len(s)))

\* re.split(r'\n(?=\\bibitem)', bbl_content): cut at every line break that
\* is followed by \bibitem; the line break itself is dropped
RECURSIVE ReSplit(_)
ReSplit(s) ==
    LET I == {i \in 1..(Len(s) - 1) : s[i] = "NL" /\ s[i + 1] = "BIB"}
    IN  IF I = {} THEN <<s>>
        ELSE <<SubSeq(s, 1, Min(I) - 1)>> \o ReSplit(SubSeq(s, Min(I) + 1, Len(s)))

\* an accumulator that grows at the front
PrependEntry(entries, entry) == <<entry>> \o entries

\* line 126
AppendEntry(entries, entry) == Append(entries, entry)

\* line 129
JoinEntries(entries) ==
    JoinWith([k \in 1..Len(entries) |-> Render(entries[k])], <<"NL", "NL">>)

-----------------------------------------------------------------------------
(* Bounds and inputs                                                       *)

\* all sequences over S of length at most n
SeqsUpTo(S, n) == UNION {[1..k -> S] : k \in 0..n}

RECURSIVE Concat(_)
Concat(ss) == IF ss = <<>> THEN <<>> ELSE ss[1] \o Concat(Tail(ss))

MaxEntries == 3

\* entries a document is made of: three that convert (the first two with the
\* same key once trimmed), one whose title contains the marker in mid-line
\* (used where only the split is run), and one that has no \newblock
GoodK   == <<"BIB", "{", "K", "}", "NL", "A", "NB", "SP", "T", "NL">>
GoodK2  == <<"BIB", "[", "A", "]", "{", "K", "SP", "}", "NL", "B", "NB", "SP", "T", "NL">>
GoodJ   == <<"BIB", "{", "J", "}", "NL", "A", ",", "SP", "B", ".", "NL", "NB", "SP", "T", ".",
             "NL", "In", "SP", "EM", "{", "J", "}", ",", "SP", "Y1", ".", "NL", "NL">>
GoodMid == <<"BIB", "{", "B", "}", "SP", "A", "NB", "SP", "T", "SP", "BIB", "{", "K", "}", "NL">>
NoBlock == <<"BIB", "{", "K", "}", "NL", "A", ".", "NL">>

WellFormedPool == {GoodK, GoodK2, GoodJ, GoodMid}
EntryPool == {GoodK, GoodK2, GoodJ, NoBlock}
Preambles == {<<>>, <<"T", "NL">>}

\* the documents main is run on
Documents ==
    {p \o Concat(es) : p \in Preambles, es \in SeqsUpTo(EntryPool, MaxEntries)}

NoMessage == [text |-> "", arg |-> ""]
NoFile == [written |-> FALSE, content |-> <<>>]

Idle ==
    /\ input_file = [status |-> "ok", content |-> <<>>]
    /\ output_path = "unopened"
    /\ output_file = NoFile
    /\ bbl_content = <<>>
    /\ bibitems = <<>>
    /\ idx = 0
    /\ raised = {}
    /\ bibtex_entries = <<>>
    /\ bibtex_content = <<>>
    /\ message = NoMessage
    /\ exit_code = -1

mainVars == <<input_file, output_path, output_file, bbl_content, bibitems, idx,
              raised, bibtex_entries, bibtex_content, message, exit_code>>
convertVars == <<bibitem, entry_parts, result>>

NoParts == [label |-> <<>>, key |-> <<>>, authors |-> <<>>, title |-> <<>>, rest |-> <<>>]

-----------------------------------------------------------------------------
(* main                                                                    *)

Init ==
    /\ input_file \in [status : {"ok"}, content : Documents]
                      \cup [status : {"missing", "unreadable"}, content : {<<>>}]
    /\ output_path = "unopened"
    /\ output_file = NoFile
    /\ bbl_content = <<>>
    /\ bibitems = <<>>
    /\ idx = 0
    /\ raised = {}
    /\ bibtex_entries = <<>>
    /\ bibtex_content = <<>>
    /\ message = NoMessage
    /\ exit_code = -1
    /\ pc = "read_input"
    /\ bibitem = <<>>
    /\ entry_parts = NoParts
    /\ result = None
    /\ authors = <<>>

\* lines 156-161: the two except clauses of main
Except(exception) ==
    /\ message' = IF exception = "FileNotFoundError"
                  THEN [text |-> "Error: Input file not found", arg |-> "bbl_file_path"]
                  ELSE [text |-> "Error", arg |-> exception]
    /\ exit_code' = 1
    /\ pc' = "done"

\* lines 144-145
ReadInput ==
    /\ pc = "read_input"
    /\ IF input_file.status = "ok"
       THEN /\ bbl_content' = input_file.content
            /\ pc' = "split"
            /\ UNCHANGED <<message, exit_code>>
       ELSE /\ Except(IF input_file.status = "missing"
                      THEN "FileNotFoundError" ELSE "PermissionError")
            /\ UNCHANGED bbl_content
    /\ UNCHANGED <<input_file, output_path, output_file, bibitems, idx, raised,
                   bibtex_entries, bibtex_content, bibitem, entry_parts, result, authors>>

\* lines 118-121
SplitContent ==
    /\ pc = "split"
    /\ bibitems' = ReSplit(bbl_content)
    /\ bibtex_entries' = <<>>
    /\ idx' = 0
    /\ pc' = "loop"
    /\ UNCHANGED <<input_file, output_path, output_file, bbl_content, raised,
                   bibtex_content, message, exit_code, bibitem, entry_parts, result, authors>>

\* lines 123-126: one turn of the loop
ConvertItem ==
    /\ pc = "loop"
    /\ idx < Len(bibitems)
    /\ bibitem' = bibitems[idx + 1]
    /\ result' = convert_bibitem_to_bibtex(bibitems[idx + 1])
    /\ bibtex_entries' = IF result'.ok THEN AppendEntry(bibtex_entries, result')
                         ELSE bibtex_entries
    /\ idx' = idx + 1
    /\ UNCHANGED <<input_file, output_path, output_file, bbl_content, bibitems, raised,
                   bibtex_content, message, exit_code, pc, entry_parts, authors>>

\* lines 123-126 with lines 103-105: one turn of the loop in which the body of
\* convert_bibitem_to_bibtex raises an exception (MemoryError, say), which
\* its except clause turns into None
ConvertItemRaises ==
    /\ pc = "loop"
    /\ idx < Len(bibitems)
    /\ bibitem' = bibitems[idx + 1]
    /\ result' = None
    /\ raised' = raised \cup {idx + 1}
    /\ idx' = idx + 1
    /\ UNCHANGED <<input_file, output_path, output_file, bbl_content, bibitems,
                   bibtex_entries, bibtex_content, message, exit_code, pc,
                   entry_parts, authors>>

\* lines 129-131
ReturnContent ==
    /\ pc = "loop"
    /\ idx = Len(bibitems)
    /\ bibtex_content' = JoinEntries(bibtex_entries)
    /\ pc' = "open_output"
    /\ UNCHANGED <<input_file, output_path, output_file, bbl_content, bibitems, idx,
                   raised, bibtex_entries, message, exit_code, bibitem, entry_parts,
                   result, authors>>

\* line 151: the path is writable, lies in a directory that does not exist,
\* names a directory, or is on a full disk
OpenOutput ==
    /\ pc = "open_output"
    /\ output_path' \in {"writable", "missing_dir", "is_dir", "disk_full"}
    /\ IF output_path' \in {"writable", "disk_full"}
       THEN /\ output_file' = [written |-> FALSE, content |-> <<>>]
            /\ pc' = "write"
            /\ UNCHANGED <<message, exit_code>>
       ELSE /\ Except(IF output_path' = "missing_dir"
                      THEN "FileNotFoundError" ELSE "IsADirectoryError")
            /\ UNCHANGED output_file
    /\ UNCHANGED <<input_file, bbl_content, bibitems, idx, raised,
                   bibtex_entries, bibtex_content, bibitem, entry_parts, result, authors>>

\* lines 152-155
WriteOutput ==
    /\ pc = "write"
    /\ IF output_path = "writable"
       THEN /\ output_file' = [written |-> TRUE, content |-> bibtex_content]
            /\ message' = [text |-> "Conversion complete! Output written to",
                           arg |-> "bibtex_file_path"]
            /\ exit_code' = 0
            /\ pc' = "done"
       ELSE /\ Except("OSError")
            /\ UNCHANGED output_file
    /\ UNCHANGED <<input_file, output_path, bbl_content, bibitems, idx, raised,
                   bibtex_entries, bibtex_content, bibitem, entry_parts, result, authors>>

Next ==
    \/ ReadInput
    \/ SplitContent
    \/ ConvertItem
    \/ ConvertItemRaises
    \/ ReturnContent
    \/ OpenOutput
    \/ WriteOutput

Spec == Init /\ [][Next]_vars

-----------------------------------------------------------------------------
(* convert_bibitem_to_bibtex on its own                                    *)

\* the call convert_bibitem_to_bibtex(bibitem)
Convert ==
    /\ pc = "call"
    /\ result' = convert_bibitem_to_bibtex(bibitem)
    /\ pc' = "returned"
    /\ UNCHANGED <<mainVars, bibitem, entry_parts, authors>>

NextConvert == Convert

InitConvert(entries) ==
    /\ Idle
    /\ pc = "call"
    /\ bibitem \in entries
    /\ entry_parts = NoParts
    /\ result = None
    /\ authors = <<>>

KeyHead == <<"BIB", "{", "K", "}">>
HeadToTitle == KeyHead \o <<"NL", "A", ".", "NL", "NB", "SP", "T", ".", "NL">>

\* entries whose key, author span and title are short texts of blanks,
\* punctuation and letters
MaxSpan == 2

MandatoryEntries ==
    {<<"BIB", "{">> \o k \o <<"}">> \o a \o <<"NB">> \o t :
        k \in SeqsUpTo({"K", "SP"}, MaxSpan),
        a \in SeqsUpTo({"A", "SP", ".", ","}, MaxSpan),
        t \in SeqsUpTo({"T", "SP", "NL"}, MaxSpan)}

InitMandatory == InitConvert(MandatoryEntries)
SpecMandatory == InitMandatory /\ [][NextConvert]_vars

\* entries with every mix of block separators, emphasis tokens, blanks and
\* letters after the author text
MaxTitleTail == 4

TitleEntries ==
    {KeyHead \o <<"A">> \o t : t \in SeqsUpTo({"NB", "EM", "SP", "NL", "T"}, MaxTitleTail)}

InitTitle == InitConvert(TitleEntries)
SpecTitle == InitTitle /\ [][NextConvert]_vars

\* entries whose text after the title is made of emphasis groups, "In" and blanks
MaxVenueParts == 3

VenueParts == {<<"In", "SP">>, <<"In">>, <<"SP">>, <<"T">>,
               <<"EM", "{", "J", "}">>, <<"EM", "{", "B", "SP", "}">>, <<"EM", "{", "}">>}

VenueEntries ==
    {HeadToTitle \o Concat(ps) : ps \in SeqsUpTo(VenueParts, MaxVenueParts)}

InitVenue == InitConvert(VenueEntries)
SpecVenue == InitVenue /\ [][NextConvert]_vars

\* entries whose text after the title is made of commas, blanks, letters,
\* digits and four-digit runs followed by a period
MaxYearParts == 5

YearParts == {<<",">>, <<"SP">>, <<"A">>, <<"d">>, <<"Y1", ".">>, <<"Y2", ".">>}

YearEntries ==
    {HeadToTitle \o Concat(ps) : ps \in SeqsUpTo(YearParts, MaxYearParts)}

InitYear == InitConvert(YearEntries)
SpecYear == InitYear /\ [][NextConvert]_vars

\* well-formed entries: marker, bracketed label, braced key, author text,
\* block separator, title, and optionally a venue, a year or a url
MaxLabelLen == 2

Labels == SeqsUpTo({"A", "SP", ",", "Y1"}, MaxLabelLen) \cup {<<"{", "A", "]", "}">>}
MaxKeyLen == 3

Keys == {k \in SeqsUpTo({"K", "J", "SP"}, MaxKeyLen) : \E i \in 1..Len(k) : k[i] # "SP"}
AuthorTexts == {<<"A">>, <<"A", ".", ",", "SP", "B", ".">>}
Titles == {<<"T">>, <<"T", "SP", "T", ".">>}
Rests == {<<>>,
          <<"NL", "NB", "SP", "EM", "{", "J", "}", ",", "SP", "Y1", ".">>,
          <<"NL", "NB", "SP", "URL", "SP", "UCMD", "{", "J", "}">>}

Compose(parts) ==
    <<"BIB", "[">> \o parts.label \o <<"]", "{">> \o parts.key \o <<"}", "NL">>
    \o parts.authors \o <<"NL", "NB", "SP">> \o parts.title \o parts.rest

InitKey ==
    /\ Idle
    /\ pc = "call"
    /\ entry_parts \in [label : Labels, key : Keys, authors : AuthorTexts,
                        title : Titles, rest : Rests]
    /\ bibitem = Compose(entry_parts)
    /\ result = None
    /\ authors = <<>>

SpecKey == InitKey /\ [][NextConvert]_vars

-----------------------------------------------------------------------------
(* the author normalisation on its own                                     *)

MaxAuthorLen == 4

AuthorSpans == SeqsUpTo({"A", "and", "SP", ",", "."}, MaxAuthorLen)

InitAuthors ==
    /\ Idle
    /\ pc = "normalize"
    /\ bibitem = <<>>
    /\ entry_parts = NoParts
    /\ result = None
    /\ \E span \in AuthorSpans : authors = <<span>>

\* lines 33-45 applied to the raw span, then to what they returned
Normalize ==
    /\ pc = "normalize"
    /\ Len(authors) < 3
    /\ authors' = Append(authors, NormalizeAuthors(authors[Len(authors)]))
    /\ UNCHANGED <<mainVars, pc, convertVars>>

NextAuthors == Normalize

SpecAuthors == InitAuthors /\ [][NextAuthors]_vars

-----------------------------------------------------------------------------
(* the split on its own                                                    *)

\* documents made of one to MaxEntries well-formed entries, each starting
\* with the marker at the start of a line; the last line break may be missing
SplitDocuments ==
    LET Whole == {Concat(es) : es \in SeqsUpTo(WellFormedPool, MaxEntries) \ {<<>>}}
    IN  Whole \cup {SubSeq(d, 1, Len(d) - 1) : d \in Whole}

InitSplit ==
    /\ input_file = [status |-> "ok", content |-> <<>>]
    /\ output_path = "unopened"
    /\ output_file = NoFile
    /\ bbl_content \in SplitDocuments
    /\ bibitems = <<>>
    /\ idx = 0
    /\ raised = {}
    /\ bibtex_entries = <<>>
    /\ bibtex_content = <<>>
    /\ message = NoMessage
    /\ exit_code = -1
    /\ pc = "split"
    /\ bibitem = <<>>
    /\ entry_parts = NoParts
    /\ result = None
    /\ authors = <<>>

NextSplit == SplitContent

SpecSplit == InitSplit /\ [][NextSplit]_vars

-----------------------------------------------------------------------------
(* Properties                                                              *)

Returned == pc = "returned" /\ result.ok

\* the value of an optional field of a record, <<>> when it is not set
FieldOf(r, name) ==
    LET I == {k \in 1..Len(r.fields) : r.fields[k][1] = name}
    IN  IF I = {} THEN <<>> ELSE r.fields[Min(I)][2]

HasField(r, name) == \E k \in 1..Len(r.fields) : r.fields[k][1] = name

\* C1: every record convert_bibitem_to_bibtex returns has a non-empty key, a
\* non-empty author value and a non-empty title value.
C1_MandatoryFieldsPopulated ==
    Returned => result.key # <<>> /\ result.author # <<>> /\ result.title # <<>>

\* the loop of process_all_bibitems has visited every chunk
Processed == pc \in {"open_output", "write", "done"}

\* the chunks visited so far that yield a record
Succeeded(n) ==
    {i \in 1..n : i \notin raised /\ convert_bibitem_to_bibtex(bibitems[i]).ok}

\* C2: after process_all_bibitems has processed a document, no two records
\* of the output accumulator carry the same key.
C2_KeysPairwiseDistinct ==
    Processed =>
        \A i, j \in 1..Len(bibtex_entries) :
            i # j => bibtex_entries[i].key # bibtex_entries[j].key

\* C2 as amended: process_all_bibitems does not deduplicate; the keys of the
\* records are pairwise distinct exactly when the trimmed braced keys of the
\* entries that yield a record are pairwise distinct.
C2_KeysDistinctIffEntryKeysDistinct ==
    Processed =>
        ((\A i, j \in 1..Len(bibtex_entries) :
              i # j => bibtex_entries[i].key # bibtex_entries[j].key)
         <=>
         (\A i, j \in Succeeded(Len(bibitems)) :
              i # j => Strip(KeyMatch(bibitems[i])) # Strip(KeyMatch(bibitems[j]))))

C2_Witness ==
    /\ pc = "done"
    /\ exit_code = 0
    /\ \E i, j \in 1..Len(bibitems) : i # j /\ KeyMatch(bibitems[i]) = <<"K", "SP">>
                                         /\ KeyMatch(bibitems[j]) = <<"J">>
    /\ Len(bibtex_entries) >= 2
    /\ \A i, j \in 1..Len(bibtex_entries) :
           i # j => bibtex_entries[i].key # bibtex_entries[j].key

\* the records of the first n chunks that yield one, in the order of the chunks
RECURSIVE RecordsOf(_)
RecordsOf(n) ==
    IF n = 0 THEN <<>>
    ELSE LET r == convert_bibitem_to_bibtex(bibitems[n])
         IN  RecordsOf(n - 1) \o (IF n \notin raised /\ r.ok THEN <<r>> ELSE <<>>)

\* C3: process_all_bibitems visits the chunks in document order and its
\* output is exactly the records of the chunks whose own extraction succeeds,
\* in that order; a chunk whose extraction fails or raises contributes
\* nothing and changes no other chunk's record, and the run goes on to its end.
C3_FailuresIsolatedOrderKept ==
    /\ pc \in {"loop", "open_output", "write", "done"} =>
           /\ idx <= Len(bibitems)
           /\ bibtex_entries = RecordsOf(idx)
           /\ idx >= 1 => bibitem = bibitems[idx]
    /\ Processed => idx = Len(bibitems) /\ bibtex_content = JoinEntries(RecordsOf(idx))

C3_Witness ==
    /\ pc = "done"
    /\ Len(bibitems) = 3
    /\ raised = {2}
    /\ ~convert_bibitem_to_bibtex(bibitems[1]).ok
    /\ convert_bibitem_to_bibtex(bibitems[2]).ok
    /\ Len(bibtex_entries) = 1
    /\ bibtex_entries[1].key = <<"J">>
    /\ exit_code = 0

\* C4: the author normalisation is idempotent: applied to its own output it
\* returns that output unchanged.
C4_AuthorNormalizationIdempotent ==
    Len(authors) = 3 => authors[3] = authors[2]

\* the first \emph{...} group, the one whose content is the venue; 0 if none
FirstEmphGroup(s) ==
    FirstIn([i \in 1..Len(s) |->
                IF s[i] = "EM" /\ GroupEnd(s, i + 1, "{", "}") # 0 THEN "group" ELSE "-"],
            1, {"group"})

\* position g is preceded by "In" and a run of blanks
PrecededByIn(s, g) ==
    \E i \in 1..(g - 2) :
        s[i] = "In" /\ \A k \in (i + 1)..(g - 1) : s[k] \in Whitespace

\* C5: the type and the venue field of a record follow the first \emph group:
\* inproceedings and booktitle when that group is preceded by "In ", article
\* and journal otherwise, article and neither field when there is no venue.
C5_VenueFollowsFirstGroup ==
    Returned =>
        LET g == FirstEmphGroup(bibitem)
            venue == CollapseWS(Strip(SubSeq(bibitem, g + 2,
                                             GroupEnd(bibitem, g + 1, "{", "}") - 1)))
        IN  IF g = 0
            THEN /\ result.type = "article"
                 /\ ~HasField(result, "journal") /\ ~HasField(result, "booktitle")
            ELSE IF PrecededByIn(bibitem, g)
            THEN /\ result.type = "inproceedings"
                 /\ HasField(result, "booktitle") /\ ~HasField(result, "journal")
                 /\ FieldOf(result, "booktitle") = venue
            ELSE /\ result.type = "article"
                 /\ HasField(result, "journal") /\ ~HasField(result, "booktitle")
                 /\ FieldOf(result, "journal") = venue

Digit == FourDigits \cup {"d"}

\* the places where a run of exactly four digits followed by a period starts
YearRuns(s) ==
    {p \in 1..Len(s) : YearAt(s, p) # <<>> /\ (p = 1 \/ s[p - 1] \notin Digit)}

\* ... preceded by a comma and one blank
CommaSpaceRuns(s) ==
    {p \in YearRuns(s) : p >= 3 /\ s[p - 1] = "SP" /\ s[p - 2] = ","}

\* ... preceded by a comma and any number of blanks and line breaks
CommaRuns(s) ==
    {p \in YearRuns(s) :
        \E c \in 1..(p - 1) : s[c] = "," /\ \A k \in (c + 1)..(p - 1) : s[k] \in Whitespace}

\* ... not preceded by a letter, a digit or an underscore
BoundaryRuns(s) == {p \in YearRuns(s) : p = 1 \/ s[p - 1] \in NonWord}

\* C6: (a) no 4-digit run followed by a period: no year field; (b) a run
\* preceded by comma-space: the year is the first such run; (c) otherwise the
\* year is the first 4-digit run followed by a period.
C6_YearExtraction ==
    Returned =>
        IF YearRuns(bibitem) = {} THEN ~HasField(result, "year")
        ELSE IF CommaSpaceRuns(bibitem) # {}
        THEN FieldOf(result, "year") = YearAt(bibitem, Min(CommaSpaceRuns(bibitem)))
        ELSE FieldOf(result, "year") = YearAt(bibitem, Min(YearRuns(bibitem)))

\* C6 as amended: (b) a run preceded by a comma and optional whitespace: the
\* year is the first such run, even when a bare run occurs earlier; (c)
\* otherwise the year is the first run that is not preceded by a letter, a
\* digit or an underscore; (a) otherwise, and so whenever no 4-digit run is
\* followed by a period, the record has no year field.
C6_YearExtractionAmended ==
    Returned =>
        IF CommaRuns(bibitem) # {}
        THEN /\ HasField(result, "year")
             /\ FieldOf(result, "year") = YearAt(bibitem, Min(CommaRuns(bibitem)))
        ELSE IF BoundaryRuns(bibitem) # {}
        THEN /\ HasField(result, "year")
             /\ FieldOf(result, "year") = YearAt(bibitem, Min(BoundaryRuns(bibitem)))
        ELSE ~HasField(result, "year")

\* a bare run comes first, a run after a comma later: the later one is the year
C6_Witness ==
    /\ Returned
    /\ CommaRuns(bibitem) # {}
    /\ Min(YearRuns(bibitem)) < Min(CommaRuns(bibitem))
    /\ YearAt(bibitem, Min(YearRuns(bibitem))) = <<"Y1">>
    /\ FieldOf(result, "year") = <<"Y2">>

\* C7: every well-formed entry yields a record whose key is the braced key
\* content with surrounding whitespace trimmed, whatever the label contains.
C7_KeyOfWellFormedEntry ==
    pc = "returned" /\ entry_parts # NoParts =>
        result.ok /\ result.key = Strip(entry_parts.key)

\* the places of the document where an entry starts: the marker at the start
\* of a line
Markers(s) == {i \in 1..Len(s) : s[i] = "BIB" /\ (i = 1 \/ s[i - 1] = "NL")}

\* the text of the entry that starts at marker m: up to the next marker or
\* the end of the document
EntryText(s, m) ==
    LET later == {n \in Markers(s) : n > m}
    IN  SubSeq(s, m, IF later = {} THEN Len(s) ELSE Min(later) - 1)

\* the k-th marker
RECURSIVE MarkerNo(_, _)
MarkerNo(M, k) == IF k = 1 THEN Min(M) ELSE MarkerNo(M \ {Min(M)}, k - 1)

\* C8: a document of N well-formed entries splits into exactly N chunks, and
\* chunk i is the text of entry i, from its marker to immediately before the
\* next marker or the end of the document.
C8_ChunksAreEntries ==
    pc = "loop" =>
        LET M == Markers(bbl_content)
        IN  /\ Len(bibitems) = Cardinality(M)
            /\ \A k \in 1..Cardinality(M) :
                   bibitems[k] = EntryText(bbl_content, MarkerNo(M, k))

\* C8 as amended: ... exactly N chunks, in document order; chunk i is the
\* text of entry i without the line break that precedes the next marker (the
\* last chunk runs to the end of the document).
C8_ChunksAreEntriesLessLineBreak ==
    pc = "loop" =>
        LET M == Markers(bbl_content)
            N == Cardinality(M)
        IN  /\ Len(bibitems) = N
            /\ \A k \in 1..N :
                   LET e == EntryText(bbl_content, MarkerNo(M, k))
                   IN  bibitems[k] = IF k < N THEN SubSeq(e, 1, Len(e) - 1) ELSE e

C8_Witness ==
    /\ pc = "loop"
    /\ Cardinality(Markers(bbl_content)) = 3
    /\ Len(bibitems) = 3
    /\ bibitems[1] = SubSeq(GoodMid, 1, Len(GoodMid) - 1)
    /\ bibitems[2] = SubSeq(GoodJ, 1, Len(GoodJ) - 1)
    /\ bibitems[3] = GoodK

\* C9: main returns 0 with the success message exactly when the input was
\* read and the output written; otherwise it returns nonzero and reports the
\* actual cause, the input-not-found message only when the input could not
\* be opened; entries that fail never make the exit code nonzero.
C9_OutcomeMatchesRun ==
    pc = "done" =>
        /\ exit_code = 0 <=> (input_file.status = "ok" /\ output_file.written)
        /\ exit_code = 0 <=> message.text = "Conversion complete! Output written to"
        /\ exit_code # 0 => message.text \in {"Error", "Error: Input file not found"}
        /\ message.text = "Error: Input file not found" => input_file.status # "ok"
        /\ (input_file.status = "ok" /\ output_path = "writable") => exit_code = 0

\* C10: the title of a record is the whitespace-collapsed, trimmed text
\* between the first \newblock and the earliest of the next \newblock, the
\* next \emph and the end of the entry; it contains no \newblock and no \emph.
C10_TitleBoundaries ==
    Returned =>
        LET n == FirstIn(bibitem, 1, {"NB"})
            stop == FirstIn(bibitem, n + 1, {"NB", "EM"})
            last == IF stop = 0 THEN Len(bibitem) ELSE stop - 1
        IN  /\ result.title = CollapseWS(Strip(SubSeq(bibitem, n + 1, last)))
            /\ \A k \in 1..Len(result.title) : result.title[k] \notin {"NB", "EM"}

====
